---- MODULE Spec2Model ----
(***************************************************************************)
(* Model of the Metal fp16 fusion passes of luminal                         *)
(* (src/compilers/metal/fp16/other.rs): MetalCosCompiler::compile and       *)
(* MetalExpCompiler::compile, run by a host pipeline over one Graph         *)
(* (graph.graph, no_delete, to_retrieve, id_remap).                         *)
(***************************************************************************)
EXTENDS Integers, Sequences, FiniteSets, TLC

(***************************************************************************)
(* Bounds and program constants                                             *)
(***************************************************************************)
\* at most this many node ids are marked (no_delete plus to_retrieve) initially
MaxMarked == 1

\* f16 bit patterns of the constants the patterns compare against
NEG_ONE == 48128
PI_OVER_2 == 15944
INV_LN2 == 15813
TWO == 16384

\* the pass sequences the host pipeline driver may be configured with
PassNames == {"cos", "exp"}
Pipelines == {<<p, q>> : p \in PassNames, q \in PassNames}

(***************************************************************************)
(* Graph model: a petgraph StableGraph of operators and data edges          *)
(***************************************************************************)
Vacant == [kind |-> "Vacant", val |-> 0]
Op(kind) == [kind |-> kind, val |-> 0]
Constant(v) == [kind |-> "MetalConstant", val |-> v]

\* node indices: those of the initial graphs, plus one slot for the first
\* replacement node (later ones reuse freed slots)
InitialIds == 1 .. 13
NumInitial == Cardinality(InitialIds)
Ids == 1 .. (NumInitial + 1)

Edge(s, d, i, sh) == [src |-> s, dst |-> d, input_order |-> i, shape |-> sh]

Live(g) == {n \in Ids : g.node[n].kind # "Vacant"}
Incoming(g, n) == {e \in g.edges : e.dst = n}
Outgoing(g, n) == {e \in g.edges : e.src = n}

\* StableGraph::add_node: reuse the most recently freed slot, else append
NewId(g) == IF g.free # <<>> THEN g.free[Len(g.free)] ELSE g.len + 1

AddNode(g, op) ==
    LET n == NewId(g) IN
    [g EXCEPT !.node[n] = op,
              !.free = IF g.free # <<>> THEN SubSeq(g.free, 1, Len(g.free) - 1) ELSE <<>>,
              !.len = IF g.free # <<>> THEN g.len ELSE g.len + 1]

AddEdge(g, e) == [g EXCEPT !.edges = g.edges \cup {e}]

\* StableGraph::remove_node: no effect on a vacant index; otherwise the node
\* and every edge incident to it go, and the slot joins the free list
RemoveNode(g, n) ==
    IF g.node[n].kind = "Vacant" THEN g
    ELSE [g EXCEPT !.node[n] = Vacant,
                   !.edges = {e \in g.edges : e.src # n /\ e.dst # n},
                   !.free = Append(g.free, n)]

RECURSIVE RemoveNodes(_, _)
RemoveNodes(g, ns) ==
    IF ns = <<>> THEN g ELSE RemoveNodes(RemoveNode(g, Head(ns)), Tail(ns))

\* graph.add_op(op).input(src, 0, shape).finish()
AddOp(g, op, src, shape) ==
    LET n == NewId(g) IN AddEdge(AddNode(g, op), Edge(src, n, 0, shape))

\* move_outgoing_edge(from, to, graph): every edge leaving from now leaves to
move_outgoing_edge(g, from, to) ==
    [g EXCEPT !.edges = {e \in g.edges : e.src # from}
                        \cup {Edge(to, e.dst, e.input_order, e.shape) : e \in Outgoing(g, from)}]

\* move_references: any occurrence of src in the three tables becomes trg
\* (id_remap is a set of <<original id, current id>> pairs)
MoveId(n, src, trg) == IF n = src THEN trg ELSE n
MoveSet(S, src, trg) == IF src \in S THEN (S \ {src}) \cup {trg} ELSE S
MoveRemap(remap, src, trg) ==
    {<<MoveId(r[1], src, trg), MoveId(r[2], src, trg)>> : r \in remap}
move_references(t, src, trg) ==
    [t EXCEPT !.id_remap = MoveRemap(t.id_remap, src, trg),
              !.no_delete = MoveSet(t.no_delete, src, trg),
              !.to_retrieve = MoveSet(t.to_retrieve, src, trg)]

(***************************************************************************)
(* Initial graphs                                                           *)
(***************************************************************************)
\*  1 x           2 const(v2)   3 const(pi/2)  4 const(1/ln2)
\*  5 mul(m5, 2)  6 mul(1, m6)  7 add(5, 3)    8 add(a8, 3)
\*  9 sin(7)     10 sin(8)     11 exp2(5)     12 exp2(6)
\* 13 consumer(9, 11)
InitialNodes(v2) ==
    [n \in Ids |->
        CASE n = 1 -> Op("Function")
          [] n = 2 -> Constant(v2)
          [] n = 3 -> Constant(PI_OVER_2)
          [] n = 4 -> Constant(INV_LN2)
          [] n \in {5, 6} -> Op("MetalMul")
          [] n \in {7, 8} -> Op("MetalAdd")
          [] n \in {9, 10} -> Op("MetalSin")
          [] n \in {11, 12} -> Op("MetalExp2")
          [] n = 13 -> Op("Function")
          [] OTHER -> Vacant]

\* edges out of constant nodes carry a broadcast shape, all others the dense
\* shape (shapes are opaque ShapeTracker values)
InitialEdges(m5, m6, a8) ==
    LET sh(s) == IF s \in {2, 3, 4} THEN "bcast" ELSE "dense"
        E(s, d, i) == Edge(s, d, i, sh(s))
    IN  {E(m5, 5, 0), E(2, 5, 1), E(1, 6, 0), E(m6, 6, 1),
         E(5, 7, 0), E(3, 7, 1), E(a8, 8, 0), E(3, 8, 1),
         E(7, 9, 0), E(8, 10, 0), E(5, 11, 0), E(6, 12, 0),
         E(9, 13, 0), E(11, 13, 1)}

InitialGraphs ==
    {[node |-> InitialNodes(v2),
      edges |-> InitialEdges(m5, m6, a8),
      free |-> <<>>,
      len |-> NumInitial] :
        v2 \in {NEG_ONE, INV_LN2, TWO},
        m5 \in {1, 2, 4}, m6 \in {2}, a8 \in {5, 6}}

RECURSIVE SubsetsUpTo(_, _)
SubsetsUpTo(S, k) ==
    IF k = 0 THEN {{}}
    ELSE LET P == SubsetsUpTo(S, k - 1) IN P \cup {T \cup {n} : T \in P, n \in S}

\* the nodes a mark can make a difference on: all but x and the consumer
Markable == InitialIds \ {1, 13}

\* entries id_remap may hold when a pass begins: earlier replacements that
\* ended at the first sin or the first exp2, under an original id that a
\* terminal node has since taken over
RemapEntries == {<<9, 11>>, <<11, 9>>}

Markings ==
    {m \in [nd : SubsetsUpTo(Markable, MaxMarked),
            tr : SubsetsUpTo(Markable, MaxMarked),
            rm : SubsetsUpTo(RemapEntries, MaxMarked)] :
        Cardinality(m.nd) + Cardinality(m.tr) + Cardinality(m.rm) <= MaxMarked}

(***************************************************************************)
(* State                                                                    *)
(***************************************************************************)
VARIABLES
    graph,             \* graph.graph
    no_delete,         \* graph.no_delete
    to_retrieve,       \* graph.to_retrieve
    id_remap,          \* graph.id_remap
    pass,              \* "idle", "cos", "exp" or "aborted"
    already_returned,  \* bindings the running search has yielded
    start,             \* history: the tables when the running pass began
    ended,             \* history: pass, tables before and after of every completed run
    last,              \* history: what the latest loop iteration did
    skipped,           \* history: matches skipped in the running pass
    deleted            \* history: node ids removed in the running pass

vars == <<graph, no_delete, to_retrieve, id_remap, pass,
          already_returned, start, ended, last, skipped, deleted>>

Tables == [graph |-> graph, no_delete |-> no_delete,
           to_retrieve |-> to_retrieve, id_remap |-> id_remap]

Step(kind, p, b, terminal, input, matched, new, before) ==
    [kind |-> kind, pass |-> p, binding |-> b, terminal |-> terminal,
     input |-> input, matched |-> matched, new |-> new, before |-> before]
NoStep == Step("none", "idle", <<>>, 0, 0, {}, 0, <<>>)

Init ==
    /\ graph \in InitialGraphs
    /\ \E m \in Markings : no_delete = m.nd /\ to_retrieve = m.tr /\ id_remap = m.rm
    /\ pass = "idle"
    /\ already_returned = {}
    /\ start = Tables
    /\ ended = <<>>
    /\ last = NoStep
    /\ skipped = {}
    /\ deleted = {}

(***************************************************************************)
(* Selector patterns and the matcher                                        *)
(***************************************************************************)
\* SelectOp::new().check(|op, _| ...) predicates and .ty::<T>() tests
IsConstPi(g, n) == g.node[n].kind = "MetalConstant" /\ g.node[n].val = PI_OVER_2
\* mutant: the payload of the constant is not compared
IsConstNegOne_AnyConstant(g, n) == g.node[n].kind = "MetalConstant"
IsConstNegOne(g, n) == g.node[n].kind = "MetalConstant" /\ g.node[n].val = NEG_ONE
IsConstInvLn2(g, n) == g.node[n].kind = "MetalConstant" /\ g.node[n].val = INV_LN2
IsTy(g, n, kind) == g.node[n].kind = kind

IsMul(g, n) == IsTy(g, n, "MetalMul")
IsAdd(g, n) == IsTy(g, n, "MetalAdd")
IsSin(g, n) == IsTy(g, n, "MetalSin")
IsExp2(g, n) == IsTy(g, n, "MetalExp2")
IsAny(g, n) == n \in Live(g)

\* the live nodes each SelectOp of the patterns accepts
SelConstPi(g) == {n \in Live(g) : IsConstPi(g, n)}
SelConstNegOne(g) == {n \in Live(g) : IsConstNegOne(g, n)}
SelConstInvLn2(g) == {n \in Live(g) : IsConstInvLn2(g, n)}
SelMul(g) == {n \in Live(g) : IsMul(g, n)}
SelAdd(g) == {n \in Live(g) : IsAdd(g, n)}
SelSin(g) == {n \in Live(g) : IsSin(g, n)}
SelExp2(g) == {n \in Live(g) : IsExp2(g, n)}
SelAny(g) == {n \in Live(g) : IsAny(g, n)}

\* SelectEdge::new(a, b): the edges of g into node n (which b has matched)
\* whose source is one of the nodes a accepts
SelectEdge(g, a, n) == {e \in Incoming(g, n) : e.src \in a}

CosBinding(c, p, m, a, s, x) ==
    [const_neg_one |-> c, const_pi |-> p, mul |-> m, add |-> a, sin |-> s, x |-> x]

\* sin(add(mul(const_neg_one, x), const_pi_over_2)), matched from the sin
\* node down through the nested edge selectors
CosMul(g, add, sin, pi) ==
    UNION {{CosBinding(c.src, pi, m.src, add, sin, x.src) :
                c \in SelectEdge(g, SelConstNegOne(g), m.src),
                x \in SelectEdge(g, SelAny(g), m.src)} :
           m \in SelectEdge(g, SelMul(g), add)}

CosAdd(g, sin) ==
    UNION {CosMul(g, e[1].src, sin, e[2].src) :
           e \in UNION {{<<a, p>> : p \in SelectEdge(g, SelConstPi(g), a.src)} :
                        a \in SelectEdge(g, SelAdd(g), sin)}}

CosBindings(g) == UNION {CosAdd(g, sin) : sin \in SelSin(g)}

ExpBinding(c, m, e) == [constant |-> c, mul |-> m, exp2 |-> e]

\* exp2(mul(x, const))
ExpMul(g, exp2) ==
    UNION {{ExpBinding(c.src, m.src, exp2) : c \in SelectEdge(g, SelConstInvLn2(g), m.src)} :
           m \in SelectEdge(g, SelMul(g), exp2)}

ExpBindings(g) == UNION {ExpMul(g, exp2) : exp2 \in SelExp2(g)}

\* search: no binding is yielded twice by one search
Search(matches, returned) == matches \ returned

\* mutant: every binding is matched against the graph the search started on
SearchGraph_Snapshot(current, atStart) == atStart
\* the graph a step of the search matches against: later matches observe the
\* graph as the earlier iterations left it
SearchGraph(current, atStart) == current

(***************************************************************************)
(* MetalCosCompiler::compile                                                *)
(***************************************************************************)
\* the nodes of a match the rewrite removes, in the order it removes them
CosRemoved(b) == <<b.mul, b.add, b.const_neg_one, b.const_pi, b.sin>>
CosMatched(b) == {b.mul, b.add, b.const_neg_one, b.const_pi, b.sin}
CosEdgePairs(b) == {<<b.const_neg_one, b.mul>>, <<b.x, b.mul>>, <<b.mul, b.add>>,
                    <<b.const_pi, b.add>>, <<b.add, b.sin>>}

\* "An intermediate node can't be deleted"
CosProtected(nd, b) ==
    \/ b.const_neg_one \in nd
    \/ b.const_pi \in nd
    \/ b.mul \in nd
    \/ b.add \in nd

\* the shape of the first incoming data edge of mul, in whatever order
\* edges_directed enumerates them
CosShapes(g, b) == {e.shape : e \in Incoming(g, b.mul)}

\* mutant: the matched nodes are removed before sin's edges are moved
CosRewrite_RemoveFirst(t, b, shape) ==
    LET cos == NewId(t.graph)
        g1 == AddOp(t.graph, Op("MetalCos"), b.x, shape)
        g2 == move_outgoing_edge(RemoveNodes(g1, CosRemoved(b)), b.sin, cos)
    IN  move_references([t EXCEPT !.graph = g2], b.sin, cos)

\* mutant: the matched nodes are never removed
CosRewrite_NoRemove(t, b, shape) ==
    LET cos == NewId(t.graph)
        g1 == AddOp(t.graph, Op("MetalCos"), b.x, shape)
        g2 == move_outgoing_edge(g1, b.sin, cos)
    IN  move_references([t EXCEPT !.graph = g2], b.sin, cos)

\* mutant: the new node takes its input from sin instead of x
CosRewrite_InputFromSin(t, b, shape) ==
    LET cos == NewId(t.graph)
        g1 == AddOp(t.graph, Op("MetalCos"), b.sin, shape)
        g2 == move_outgoing_edge(g1, b.sin, cos)
        t2 == move_references([t EXCEPT !.graph = g2], b.sin, cos)
    IN  [t2 EXCEPT !.graph = RemoveNodes(g2, CosRemoved(b))]

\* mutant: the references of add, not of sin, are moved to the new node
CosRewrite_RefsFromAdd(t, b, shape) ==
    LET cos == NewId(t.graph)
        g1 == AddOp(t.graph, Op("MetalCos"), b.x, shape)
        g2 == move_outgoing_edge(g1, b.sin, cos)
        t2 == move_references([t EXCEPT !.graph = g2], b.add, cos)
    IN  [t2 EXCEPT !.graph = RemoveNodes(g2, CosRemoved(b))]

CosRewrite(t, b, shape) ==
    LET cos == NewId(t.graph)
        g1 == AddOp(t.graph, Op("MetalCos"), b.x, shape)
        g2 == move_outgoing_edge(g1, b.sin, cos)
        t2 == move_references([t EXCEPT !.graph = g2], b.sin, cos)
    IN  [t2 EXCEPT !.graph = RemoveNodes(g2, CosRemoved(b))]

(***************************************************************************)
(* MetalExpCompiler::compile                                                *)
(***************************************************************************)
ExpRemoved(b) == <<b.mul, b.constant, b.exp2>>
ExpMatched(b) == {b.mul, b.constant, b.exp2}
ExpEdgePairs(b) == {<<b.constant, b.mul>>, <<b.mul, b.exp2>>}

ExpProtected(nd, b) ==
    \/ b.constant \in nd
    \/ b.mul \in nd
    \/ b.exp2 \in nd

\* mutant: the matched constant is not filtered out of the sources
ExpSources_Unfiltered(g, b) == Incoming(g, b.mul)
\* graph.get_sources(mul) in input order, without the matched constant
ExpSources(g, b) == {e \in Incoming(g, b.mul) : e.src # b.constant}
ExpSource(g, b) ==
    CHOOSE e \in ExpSources(g, b) :
        \A f \in ExpSources(g, b) : e.input_order <= f.input_order

\* mutant: move_references is called with source and target swapped
ExpRewrite_SwappedRefs(t, b) ==
    LET src == ExpSource(t.graph, b)
        exp == NewId(t.graph)
        g1 == AddOp(t.graph, Op("MetalExp"), src.src, src.shape)
        g2 == move_outgoing_edge(g1, b.exp2, exp)
        t2 == move_references([t EXCEPT !.graph = g2], exp, b.exp2)
    IN  [t2 EXCEPT !.graph = RemoveNodes(g2, ExpRemoved(b))]

ExpRewrite(t, b) ==
    LET src == ExpSource(t.graph, b)
        exp == NewId(t.graph)
        g1 == AddOp(t.graph, Op("MetalExp"), src.src, src.shape)
        g2 == move_outgoing_edge(g1, b.exp2, exp)
        t2 == move_references([t EXCEPT !.graph = g2], b.exp2, exp)
    IN  [t2 EXCEPT !.graph = RemoveNodes(g2, ExpRemoved(b))]

(***************************************************************************)
(* Actions                                                                  *)
(***************************************************************************)
\* for _ in s.search(graph)
CosSearch == Search(CosBindings(SearchGraph(graph, start.graph)), already_returned)
ExpSearch == Search(ExpBindings(SearchGraph(graph, start.graph)), already_returned)

SetTables(t) ==
    /\ graph' = t.graph
    /\ no_delete' = t.no_delete
    /\ to_retrieve' = t.to_retrieve
    /\ id_remap' = t.id_remap

\* what a skipped match looked like when it was skipped
MatchView(g, p, b, ids, pairs) ==
    [pass |-> p, binding |-> b, ids |-> ids, protected |-> ids \cap no_delete,
     nodes |-> {<<n, g.node[n]>> : n \in ids},
     edges |-> {e \in g.edges : <<e.src, e.dst>> \in pairs}]

BeginPass(p) ==
    /\ pass = "idle"
    /\ \E q \in Pipelines :
        /\ Len(ended) < Len(q)
        /\ \A i \in 1 .. Len(ended) : q[i] = ended[i].pass
        /\ q[Len(ended) + 1] = p
    /\ pass' = p
    /\ already_returned' = {}
    /\ start' = Tables
    /\ last' = NoStep
    /\ skipped' = {}
    /\ deleted' = {}
    /\ UNCHANGED <<graph, no_delete, to_retrieve, id_remap, ended>>

EndPass(p) ==
    /\ pass = p
    /\ pass' = "idle"
    /\ ended' = Append(ended, [pass |-> p, before |-> start, after |-> Tables])
    /\ UNCHANGED <<graph, no_delete, to_retrieve, id_remap, already_returned,
                   start, last, skipped, deleted>>

\* mutant: the protection check leaves the loop (break) instead of moving
\* on to the next match (continue)
SkipMatch_Break(p, b, ids, pairs) ==
    /\ already_returned' = already_returned \cup {b}
    /\ skipped' = skipped \cup {MatchView(graph, p, b, ids, pairs)}
    /\ last' = Step("skip", p, b, 0, 0, ids, 0, Tables)
    /\ pass' = "idle"
    /\ ended' = Append(ended, [pass |-> p, before |-> start, after |-> Tables])
    /\ UNCHANGED <<graph, no_delete, to_retrieve, id_remap, start, deleted>>

SkipMatch(p, b, ids, pairs) ==
    /\ already_returned' = already_returned \cup {b}
    /\ skipped' = skipped \cup {MatchView(graph, p, b, ids, pairs)}
    /\ last' = Step("skip", p, b, 0, 0, ids, 0, Tables)
    /\ UNCHANGED <<graph, no_delete, to_retrieve, id_remap, pass,
                   start, ended, deleted>>

CosBegin == BeginPass("cos")

CosSkip ==
    /\ pass = "cos"
    /\ \E b \in CosSearch :
        /\ CosProtected(no_delete, b)
        /\ SkipMatch("cos", b, CosMatched(b) \cup {b.x}, CosEdgePairs(b))

CosFuse ==
    /\ pass = "cos"
    /\ \E b \in CosSearch :
        /\ ~CosProtected(no_delete, b)
        /\ \E shape \in CosShapes(graph, b) :
            /\ SetTables(CosRewrite(Tables, b, shape))
            /\ last' = Step("rewrite", "cos", b, b.sin, b.x, CosMatched(b),
                            NewId(graph), Tables)
        /\ already_returned' = already_returned \cup {b}
        /\ deleted' = deleted \cup CosMatched(b)
        /\ UNCHANGED <<pass, start, ended, skipped>>

CosEnd ==
    /\ pass = "cos"
    /\ CosSearch = {}
    /\ EndPass("cos")

ExpBegin == BeginPass("exp")

ExpSkip ==
    /\ pass = "exp"
    /\ \E b \in ExpSearch :
        /\ ExpProtected(no_delete, b)
        /\ SkipMatch("exp", b, ExpMatched(b), ExpEdgePairs(b))

\* find(..).unwrap() on a mul whose only source is the matched constant
ExpPanic ==
    /\ pass = "exp"
    /\ \E b \in ExpSearch :
        /\ ~ExpProtected(no_delete, b)
        /\ ExpSources(graph, b) = {}
        /\ last' = Step("panic", "exp", b, b.exp2, 0, ExpMatched(b), 0, Tables)
        /\ already_returned' = already_returned \cup {b}
    /\ pass' = "aborted"
    /\ UNCHANGED <<graph, no_delete, to_retrieve, id_remap, start, ended, skipped, deleted>>

ExpFuse ==
    /\ pass = "exp"
    /\ \E b \in ExpSearch :
        /\ ~ExpProtected(no_delete, b)
        /\ ExpSources(graph, b) # {}
        /\ SetTables(ExpRewrite(Tables, b))
        /\ last' = Step("rewrite", "exp", b, b.exp2, ExpSource(graph, b).src,
                        ExpMatched(b), NewId(graph), Tables)
        /\ already_returned' = already_returned \cup {b}
        /\ deleted' = deleted \cup ExpMatched(b)
        /\ UNCHANGED <<pass, start, ended, skipped>>

ExpEnd ==
    /\ pass = "exp"
    /\ ExpSearch = {}
    /\ EndPass("exp")

Next ==
    \/ CosBegin \/ CosSkip \/ CosFuse \/ CosEnd
    \/ ExpBegin \/ ExpSkip \/ ExpFuse \/ ExpPanic \/ ExpEnd

Spec == Init /\ [][Next]_vars

(***************************************************************************)
(* Properties                                                               *)
(***************************************************************************)
Rewrote == last.kind = "rewrite"
RanPass == pass = "idle" /\ ended # <<>>
Before == last.before

CosIntermediate(b) == {b.const_neg_one, b.const_pi, b.mul, b.add}
ExpIntermediate(b) == {b.constant, b.mul}
Intermediate(m) ==
    IF m.pass = "cos" THEN CosIntermediate(m.binding) ELSE ExpIntermediate(m.binding)

\* every node and edge of a skipped match is in g as it was when skipped
Intact(g, m) ==
    /\ \A n \in m.nodes : g.node[n[1]] = n[2]
    /\ m.edges \subseteq g.edges

\* C1 (as claimed): once a pass has run, every match it skipped because one
\* of its intermediate nodes was in no_delete still has all its nodes and
\* edges, unchanged.
C1_ProtectionPreservation ==
    RanPass =>
        \A m \in skipped :
            Intermediate(m) \cap m.protected # {} => Intact(graph, m)

\* C2 (as claimed): no node id that was in no_delete when a pass began is
\* removed from the graph by that pass.
C2_ProtectedNeverRemoved == start.no_delete \cap deleted = {}

\* C3: a rewrite whose terminal node (sin / exp2) was in to_retrieve leaves
\* the new node's id in to_retrieve and the terminal's id out of it.
C3_ReferenceMigration ==
    (Rewrote /\ last.terminal \in Before.to_retrieve) =>
        /\ last.new \in to_retrieve
        /\ last.terminal \notin to_retrieve

C3_Witness ==
    /\ Rewrote
    /\ last.terminal \in Before.to_retrieve
    /\ last.new # last.terminal

OutEdges(g, n) == {<<e.dst, e.input_order, e.shape>> : e \in Outgoing(g, n)}

\* C4: the (destination, input slot, shape) triples of the edges leaving the
\* new node after a rewrite are exactly those of the edges that left the
\* terminal node before it, one edge each.
C4_EdgeConservation ==
    Rewrote =>
        /\ OutEdges(graph, last.new) = OutEdges(Before.graph, last.terminal)
        /\ Cardinality(Outgoing(graph, last.new))
              = Cardinality(Outgoing(Before.graph, last.terminal))

C4_Witness ==
    /\ Rewrote
    /\ Outgoing(Before.graph, last.terminal) # {}
    /\ OutEdges(graph, last.new) = OutEdges(Before.graph, last.terminal)

\* C5 (as claimed): after a rewrite exactly the matched nodes are gone, one
\* new node exists, and its only incoming edge comes from the surviving
\* input x at slot 0, x being still live.
C5_RewriteResult ==
    Rewrote =>
        /\ last.new \notin Live(Before.graph)
        /\ Live(graph) = (Live(Before.graph) \ last.matched) \cup {last.new}
        /\ last.input \in Live(graph)
        /\ \E e \in graph.edges :
            /\ Incoming(graph, last.new) = {e}
            /\ e.src = last.input
            /\ e.input_order = 0

\* C6: a run of a pass directly after a completed run of the same pass
\* changes nothing: graph, no_delete, to_retrieve and id_remap end as they began.
C6_Idempotence ==
    \A i \in DOMAIN ended :
        (i > 1 /\ ended[i - 1].pass = ended[i].pass) => ended[i].after = ended[i].before

C6_Witness ==
    /\ Len(ended) = 2
    /\ ended[1].pass = ended[2].pass
    /\ ended[1].after # ended[1].before
    /\ ended[2].after = ended[1].after
    /\ skipped # {}

\* an instance of a pattern, stated on the graph itself
Const(g, n, v) == n \in Live(g) /\ g.node[n] = Constant(v)
Feeds(g, a, b) == \E e \in g.edges : e.src = a /\ e.dst = b
HasCosInstance(g) ==
    \E sin \in Live(g) : g.node[sin].kind = "MetalSin" /\
    \E add \in Live(g) : g.node[add].kind = "MetalAdd" /\ Feeds(g, add, sin) /\
    \E pi \in Live(g) : Const(g, pi, PI_OVER_2) /\ Feeds(g, pi, add) /\
    \E mul \in Live(g) : g.node[mul].kind = "MetalMul" /\ Feeds(g, mul, add) /\
    \E c \in Live(g) : Const(g, c, NEG_ONE) /\ Feeds(g, c, mul)
HasExpInstance(g) ==
    \E exp2 \in Live(g) : g.node[exp2].kind = "MetalExp2" /\
    \E mul \in Live(g) : g.node[mul].kind = "MetalMul" /\ Feeds(g, mul, exp2) /\
    \E c \in Live(g) : Const(g, c, INV_LN2) /\ Feeds(g, c, mul)
PatternFree(g) == ~HasCosInstance(g) /\ ~HasExpInstance(g)

\* C7: on a graph with no instance of either pattern, every pass run ends
\* with graph, no_delete, to_retrieve and id_remap as they were at first.
C7_NoFalsePositives ==
    \/ ended = <<>>
    \/ /\ \A i \in DOMAIN ended : ended[i].after = ended[1].before
       /\ Tables = ended[1].before
    \/ ~PatternFree(ended[1].before.graph)

C7_Witness ==
    /\ Len(ended) = 2
    /\ ended[1].pass # ended[2].pass
    /\ PatternFree(ended[1].before.graph)
    /\ ended[2].after = ended[1].before

\* the node ids of the binding the latest iteration acted on
ActedOn == last.matched \cup (IF Rewrote THEN {last.input} ELSE {})

C9_MarkedStayLive ==
    (RanPass /\ (start.no_delete \cup start.to_retrieve) \subseteq Live(start.graph)) =>
        (no_delete \cup to_retrieve) \subseteq Live(graph)

InSlots(g, n) == {<<e.input_order, e.shape>> : e \in Incoming(g, n)}

\* C10 (as claimed): a rewrite leaves every node outside the match with the
\* incoming edges (slots and shapes) it had before.
C10_ConsumersKeepInputs ==
    Rewrote =>
        \A n \in Live(Before.graph) \ last.matched :
            /\ InSlots(graph, n) = InSlots(Before.graph, n)
            /\ Cardinality(Incoming(graph, n)) = Cardinality(Incoming(Before.graph, n))

\* the shapes of the edges x -> mul
InputShapes(g, x, mul) == {e.shape : e \in {f \in g.edges : f.src = x /\ f.dst = mul}}

\* C11 (as claimed): the edge that wires the replacement node to x carries the
\* shape of the original edge x -> mul, whichever incoming edge of mul is
\* enumerated first.
C11_InputShape ==
    Rewrote =>
        \A e \in Incoming(graph, last.new) :
            e.shape \in InputShapes(Before.graph, last.input, last.binding.mul)

\* C11, exp pass only: the shape is that of the source of mul that is not the
\* matched constant.
C11_ExpInputShape ==
    (Rewrote /\ last.pass = "exp") =>
        \A e \in Incoming(graph, last.new) :
            e.shape \in InputShapes(Before.graph, last.input, last.binding.mul)

\* mul has no source other than the matched constant
OnlyConstantFeeds(g, b) == \A e \in Incoming(g, b.mul) : e.src = b.constant

\* C12: when the exp pass processes an unprotected match whose mul has no
\* source other than the matched constant, the pass aborts instead of
\* rewriting, and at that point graph, no_delete, to_retrieve and id_remap are
\* as they were when the match was taken up.
C12_LoudFailure ==
    /\ (last.pass = "exp" /\ last.kind \in {"rewrite", "panic"}
            /\ OnlyConstantFeeds(Before.graph, last.binding))
        => (last.kind = "panic" /\ pass = "aborted")
    /\ last.kind = "panic" => (pass = "aborted" /\ Tables = Before)

C12_Witness ==
    /\ last.kind = "panic"
    /\ pass = "aborted"
    /\ ~ExpProtected(no_delete, last.binding)
    /\ OnlyConstantFeeds(graph, last.binding)
    /\ Tables = Before

\* peel off the nodes without a predecessor among ns until none is left
\* (acyclic) or none can be peeled (a cycle remains)
RECURSIVE HasCycle(_, _)
HasCycle(g, ns) ==
    IF ns = {} THEN FALSE
    ELSE LET roots == {n \in ns : \A e \in Incoming(g, n) : e.src \notin ns}
         IN  IF roots = {} THEN TRUE ELSE HasCycle(g, ns \ roots)

Acyclic(g) == ~HasCycle(g, Live(g))
NoDanglingEdge(g) == \A e \in g.edges : e.src \in Live(g) /\ e.dst \in Live(g)

\* C13: after every rewrite the graph is acyclic and every edge has both of
\* its endpoints live.
C13_GraphWellFormed ==
    Rewrote => (Acyclic(graph) /\ NoDanglingEdge(graph))

\* a rewrite whose new node sits between a live input and a live consumer
C13_Witness ==
    /\ Rewrote
    /\ Incoming(graph, last.new) # {}
    /\ Outgoing(graph, last.new) # {}
    /\ Acyclic(graph)
    /\ NoDanglingEdge(graph)

\* the matched node sets of the instances of pass p's pattern in g
Instances(p, g) ==
    IF p = "cos" THEN {CosMatched(b) : b \in CosBindings(g)}
    ELSE {ExpMatched(b) : b \in ExpBindings(g)}

\* the latest iteration took up, after a skip of the same run, a binding whose
\* matched nodes were all unprotected and live
TookUpAfterSkip ==
    /\ skipped # {}
    /\ last.kind \in {"rewrite", "panic"}
    /\ last.matched \cap Before.no_delete = {}
    /\ last.matched \subseteq Live(Before.graph)

\* the bindings of pass p's pattern in g
Bindings(p, g) == IF p = "cos" THEN CosBindings(g) ELSE ExpBindings(g)

\* after a skip the loop is still running, or has ended because the search
\* had nothing more to yield
SkipContinues ==
    last.kind = "skip" =>
        \/ pass = last.pass
        \/ Bindings(last.pass, graph) \subseteq already_returned

OnlyProtectedRemain ==
    RanPass =>
        \A m \in Instances(ended[Len(ended)].pass, graph) : m \cap no_delete # {}

\* C14 (as claimed): a skip does not end the loop, every binding taken up
\* after a skip whose matched nodes are all unprotected and live is rewritten,
\* and when a pass has ended every remaining instance of its pattern contains
\* a protected node.
C14_SkipIsLocal ==
    /\ SkipContinues
    /\ TookUpAfterSkip => Rewrote
    /\ OnlyProtectedRemain

\* C14 (amended): as claimed, except that in the exp pass a binding taken up
\* after a skip whose mul has no source other than the matched constant
\* aborts the pass instead of being rewritten.
C14_SkipIsLocalOrAbort ==
    /\ SkipContinues
    /\ TookUpAfterSkip =>
        \/ Rewrote
        \/ /\ last.kind = "panic"
           /\ last.pass = "exp"
           /\ OnlyConstantFeeds(Before.graph, last.binding)
    /\ OnlyProtectedRemain

\* a pass has ended whose last iteration rewrote a match after an earlier
\* skip, and an instance of its pattern remains
C14_Witness ==
    /\ RanPass
    /\ skipped # {}
    /\ Rewrote
    /\ last.matched \cap Before.no_delete = {}
    /\ Instances(ended[Len(ended)].pass, graph) # {}

\* the terminal nodes of pass p's pattern in g
Terminals(p, g) == IF p = "cos" THEN SelSin(g) ELSE SelExp2(g)

\* the bindings the running (or latest) run has rewritten: those it was
\* yielded and neither skipped nor aborted on
Rewritten ==
    {b \in already_returned :
        /\ b \notin {m.binding : m \in skipped}
        /\ ~(last.kind = "panic" /\ last.binding = b)}
NumRewrites == Cardinality(Rewritten)

\* the matched nodes of a binding of pass p's pattern
Matched(p, b) == IF p = "cos" THEN CosMatched(b) ELSE ExpMatched(b)

\* what a search over the bindings bs has still to yield
Pending(bs, returned) == bs \ returned

\* every iteration takes one binding out of what the search has still to
\* yield and adds none, or aborts the run; the node a rewrite adds is part of
\* no binding
LoopVariant ==
    /\ last.kind \in {"skip", "rewrite"} =>
        LET now == Bindings(last.pass, graph)
            was == IF graph = Before.graph THEN now
                   ELSE Bindings(last.pass, Before.graph)
            before == Pending(was, already_returned \ {last.binding})
        IN  /\ last.binding \in before
            /\ Pending(now, already_returned) \subseteq before \ {last.binding}
            /\ now \subseteq was
            /\ Rewrote => \A b \in now : last.new \notin Matched(last.pass, b)
    /\ last.kind = "panic" => pass = "aborted"

\* a running loop is never stuck: in the cos pass every binding the search
\* can yield has an incoming edge of mul to take the shape from (in the exp
\* pass a binding is skipped, rewritten or aborts the run)
LoopProceeds ==
    pass = "cos" =>
        \A b \in CosSearch : CosProtected(no_delete, b) \/ CosShapes(graph, b) # {}

\* C15: each pass terminates (every iteration of the match loop shrinks the
\* finite set of bindings still to be yielded, or aborts, and the loop is never
\* stuck), the replacement node creates no new instance of the pass's own
\* pattern, and a run rewrites at most as many matches as there were terminal
\* nodes (sin / exp2) when it started.
C15_Termination ==
    /\ LoopVariant
    /\ LoopProceeds
    /\ last.kind # "none" =>
        NumRewrites <= Cardinality(Terminals(last.pass, start.graph))

\* a completed run that rewrote one match for every terminal node it started
\* with, more than one
C15_Witness ==
    /\ RanPass
    /\ Rewrote
    /\ NumRewrites > 1
    /\ NumRewrites = Cardinality(Terminals(last.pass, start.graph))

\* S with the member old, if it has it, replaced by new, and nothing else
\* changed: same other members, same size
Replaced(S, after, old, new) ==
    /\ after \ {old, new} = S \ {old, new}
    /\ old \notin after
    /\ new \in after <=> old \in S
    /\ Cardinality(after) = Cardinality(S)

\* C16: a rewrite changes no_delete, to_retrieve and id_remap only by putting
\* the new node's id where the terminal's id was: every other member and
\* entry is unchanged and the two sets keep their sizes; a skipped match
\* changes none of the three.
C16_TableFrame ==
    /\ Rewrote =>
        /\ Replaced(Before.no_delete, no_delete, last.terminal, last.new)
        /\ Replaced(Before.to_retrieve, to_retrieve, last.terminal, last.new)
        /\ id_remap =
            {<<IF r[1] = last.terminal THEN last.new ELSE r[1],
               IF r[2] = last.terminal THEN last.new ELSE r[2]>> : r \in Before.id_remap}
    /\ last.kind = "skip" =>
        /\ no_delete = Before.no_delete
        /\ to_retrieve = Before.to_retrieve
        /\ id_remap = Before.id_remap

\* a rewrite that found the terminal's id in id_remap next to another id
C16_Witness ==
    /\ Rewrote
    /\ \E r \in Before.id_remap : last.terminal \in {r[1], r[2]}
    /\ \E r \in id_remap :
        /\ last.new \in {r[1], r[2]}
        /\ {r[1], r[2]} \ {last.new} # {}
        /\ {r[1], r[2]} \ {last.new} \subseteq Live(graph)
    /\ no_delete = Before.no_delete
    /\ to_retrieve = Before.to_retrieve

\* the tables a run of a pass can end with when it starts on t with the
\* bindings in returned already yielded: the match loop as a function, every
\* order of the bindings and every choice of shape; a run that aborts has no
\* result
RECURSIVE RunCos(_, _)
RunCos(t, returned) ==
    LET s == Search(CosBindings(t.graph), returned) IN
    IF s = {} THEN {t}
    ELSE UNION {IF CosProtected(t.no_delete, b) THEN RunCos(t, returned \cup {b})
                ELSE UNION {RunCos(CosRewrite(t, b, shape), returned \cup {b}) :
                            shape \in CosShapes(t.graph, b)} :
                b \in s}

RECURSIVE RunExp(_, _)
RunExp(t, returned) ==
    LET s == Search(ExpBindings(t.graph), returned) IN
    IF s = {} THEN {t}
    ELSE UNION {IF ExpProtected(t.no_delete, b) THEN RunExp(t, returned \cup {b})
                ELSE IF ExpSources(t.graph, b) = {} THEN {}
                ELSE RunExp(ExpRewrite(t, b), returned \cup {b}) :
                b \in s}

Run(p, t) == IF p = "cos" THEN RunCos(t, {}) ELSE RunExp(t, {})
RunBoth(p, q, t) == UNION {Run(q, u) : u \in Run(p, t)}

\* the nodes the passes have added, and a graph as its live nodes and edges
\* with those nodes renamed by f
NewNodes(g) == {n \in Live(g) : g.node[n].kind \in {"MetalCos", "MetalExp"}}
Rename(f, n) == IF n \in DOMAIN f THEN f[n] ELSE n
GraphView(g, f) ==
    [nodes |-> {<<Rename(f, n), g.node[n]>> : n \in Live(g)},
     edges |-> {Edge(Rename(f, e.src), Rename(f, e.dst), e.input_order, e.shape) :
                e \in g.edges}]
SameUpToNewIds(g, h) ==
    \E f \in [NewNodes(g) -> NewNodes(h)] :
        /\ \A n \in NewNodes(h) : \E m \in NewNodes(g) : f[m] = n
        /\ GraphView(g, f) = GraphView(h, <<>>)

OtherPass(p) == IF p = "cos" THEN "exp" ELSE "cos"

\* a pipeline of the two passes has ended with a graph that the pipeline in
\* the other order can also end with, up to the ids of the added nodes
OrderIndependent ==
    (pass = "idle" /\ Len(ended) = 2 /\ ended[1].pass # ended[2].pass) =>
        \E u \in RunBoth(ended[2].pass, ended[1].pass, ended[1].before) :
            SameUpToNewIds(ended[2].after.graph, u.graph)

\* a rewrite removes no node of an instance of the other pass's pattern
NoCrossPassDeletion ==
    Rewrote =>
        \A b \in Bindings(OtherPass(last.pass), Before.graph) :
            Matched(OtherPass(last.pass), b) \cap last.matched = {}

\* C17 (as claimed): the two passes give the same graph in either order, up
\* to the ids of the nodes they add, and a rewrite by one pass deletes no node
\* that a match of the other pass needs.
C17_PassOrderIndependence ==
    /\ OrderIndependent
    /\ NoCrossPassDeletion

====
